---- MODULE Spec2Model ----
(***************************************************************************)
(* Model of the pathbuf! macro (src/src/lib.rs).                           *)
(*                                                                         *)
(* A path is a sequence of one-character strings.  A call of the macro is  *)
(* a call site (the fragment list and whether a comma follows the last     *)
(* fragment); the macro's rules rewrite the call's input, then the         *)
(* expansion of the first rule runs statement by statement: the capacity   *)
(* expression with its size_of_val($part) terms, one temp.push($part) per  *)
(* fragment, and the final `temp`.  Every evaluation of a $part expression *)
(* is recorded in the call's evaluation log.  PathBuf::push follows the    *)
(* UNIX behaviour of the standard library that line 69 calls.              *)
(***************************************************************************)
EXTENDS Integers, Sequences, FiniteSets, TLC

\* ---------------------------------------------------------------- bounds
MaxFragLen == 2
MaxParts == 3
ConcMaxParts == 2
MaxCap == 10

\* the separator and one byte that is not a separator
Alphabet == {"/", "a"}

\* the upward-traversing component
ParentDir == <<".", ".">>

FragmentsUpTo(len) == UNION {[1..n -> Alphabet] : n \in 0..len} \cup {ParentDir}

\* fragments of the interleaved calls: empty, relative, absolute, ending in
\* a separator
ConcFragments == {<<>>, <<"a">>, <<"/", "a">>, <<"a", "/">>}
ListsUpTo(frags, len) == UNION {[1..n -> frags] : n \in 0..len}

\* a call site: the fragments between the brackets and the trailing comma;
\* `pathbuf![,]` matches no rule, so the comma needs a fragment before it
CallSites(frags, len) ==
    {[parts |-> l, comma |-> b] : l \in ListsUpTo(frags, len), b \in BOOLEAN} \
        {[parts |-> <<>>, comma |-> TRUE]}

NoBuf == [inner |-> <<"?">>, cap |-> -1]

VARIABLES
    args,     \* call -> the call site as written (never changes)
    input,    \* call -> the macro input the rules are matched against
    pc,       \* call -> "expand", "alloc", "push", "done"
    i,        \* call -> index of the next temp.push($part) statement
    temp,     \* buffer cell -> PathBuf bound to `temp`
    evals,    \* call -> log of the evaluations of $part expressions
    result    \* call -> the value of the block, NoBuf before it is returned

vars == <<args, input, pc, i, temp, evals, result>>

\* ------------------------------------------------------- std::path (UNIX)
Max(a, b) == IF a >= b THEN a ELSE b

is_sep(ch) == ch = "/"

\* Path::is_absolute on UNIX: the path has a root
is_absolute(path) == path # <<>> /\ is_sep(path[1])

PathBufNew == [inner |-> <<>>, cap |-> 0]

with_capacity(c) == [inner |-> <<>>, cap |-> c]

\* Vec growth under OsString::push: amortised doubling, at least 8 bytes
extend(buf, s) ==
    LET needed == Len(buf.inner) + Len(s)
    IN  [inner |-> buf.inner \o s,
         cap   |-> IF needed <= buf.cap THEN buf.cap
                   ELSE Max(8, Max(2 * buf.cap, needed))]

truncate(buf, n) == [buf EXCEPT !.inner = SubSeq(buf.inner, 1, n)]

need_sep(buf) == buf.inner # <<>> /\ ~is_sep(buf.inner[Len(buf.inner)])

pushAlwaysSep(buf, path) ==
    IF is_absolute(path) THEN extend(truncate(buf, 0), path)
    ELSE IF buf.inner = <<>> \/ need_sep(buf) THEN extend(extend(buf, <<"/">>), path)
    ELSE extend(buf, path)

pushNoOverride(buf, path) ==
    IF need_sep(buf) THEN extend(extend(buf, <<"/">>), path)
    ELSE extend(buf, path)

pushNoGrow(buf, path) ==
    LET full == IF is_absolute(path) THEN path
                ELSE IF need_sep(buf) THEN buf.inner \o <<"/">> \o path
                ELSE buf.inner \o path
        room == Max(buf.cap, Len(buf.inner))
    IN  [inner |-> SubSeq(full, 1, IF Len(full) <= room THEN Len(full) ELSE room),
         cap   |-> buf.cap]

pushDoubleSep(buf, path) ==
    IF is_absolute(path) THEN extend(truncate(buf, 0), path)
    ELSE IF buf.inner # <<>> THEN extend(extend(buf, <<"/">>), path)
    ELSE extend(buf, path)

\* PathBuf::push
push(buf, path) ==
    IF is_absolute(path) THEN extend(truncate(buf, 0), path)
    ELSE IF need_sep(buf) THEN extend(extend(buf, <<"/">>), path)
    ELSE extend(buf, path)

\* std::mem::size_of_val of a fragment (&str, &Path, &OsStr): its byte length
size_of_val(part) == Len(part)

RECURSIVE CapacityExpr(_)
\* $( std::mem::size_of_val($part) + )* 0
CapacityExpr(parts) ==
    IF parts = <<>> THEN 0
    ELSE size_of_val(Head(parts)) + CapacityExpr(Tail(parts))

\* ------------------------------------------------------------- the macro
Calls == DOMAIN pc

\* ( $( $part:expr ),* ): fragments separated by commas, none after the last
MatchesRule1(t) == ~t.comma

\* ( $( $part:expr, )* ): every fragment followed by a comma
MatchesRule2(t) == t.comma \/ t.parts = <<>>

ForwardDropLast(parts) == SubSeq(parts, 1, Len(parts) - 1)

\* $crate::pathbuf![$($part),*]
ForwardParts(parts) == parts

TempShared(c) == "A"

\* `let mut temp`: a local of the expanded block, one per call
TempOf(c) == c

AllocNonEmpty(c) ==
    /\ pc[c] = "alloc"
    /\ evals' = [evals EXCEPT ![c] = @ \o
                   [k \in 1..Len(input[c].parts) |->
                      [site |-> "size_of_val", part |-> k, val |-> input[c].parts[k]]]]
    /\ temp' = [temp EXCEPT ![TempOf(c)] = [inner |-> <<".">>, cap |-> 1]]
    /\ i' = [i EXCEPT ![c] = 1]
    /\ pc' = [pc EXCEPT ![c] = "push"]
    /\ UNCHANGED <<args, input, result>>

PushPartReversed(c) ==
    /\ pc[c] = "push"
    /\ i[c] <= Len(input[c].parts)
    /\ LET k == Len(input[c].parts) + 1 - i[c]
           part == input[c].parts[k]
       IN  /\ evals' = [evals EXCEPT ![c] =
                          Append(@, [site |-> "push", part |-> k, val |-> part])]
           /\ temp' = [temp EXCEPT ![TempOf(c)] = push(@, part)]
    /\ i' = [i EXCEPT ![c] = @ + 1]
    /\ UNCHANGED <<args, input, pc, result>>

ReturnBeforeLast(c) ==
    /\ pc[c] = "push"
    /\ i[c] >= Len(input[c].parts)
    /\ result' = [result EXCEPT ![c] = temp[TempOf(c)]]
    /\ pc' = [pc EXCEPT ![c] = "done"]
    /\ UNCHANGED <<args, input, i, temp, evals>>

\* second rule: forward the fragments to the comma-free rule
Rule2(c) ==
    /\ pc[c] = "expand"
    /\ ~MatchesRule1(input[c])
    /\ MatchesRule2(input[c])
    /\ input' = [input EXCEPT ![c] =
                   [parts |-> ForwardParts(input[c].parts), comma |-> FALSE]]
    /\ UNCHANGED <<args, pc, i, temp, evals, result>>

\* first rule: the call expands to the block of lines 63-73
Rule1(c) ==
    /\ pc[c] = "expand"
    /\ MatchesRule1(input[c])
    /\ pc' = [pc EXCEPT ![c] = "alloc"]
    /\ UNCHANGED <<args, input, i, temp, evals, result>>

\* let mut temp = PathBuf::with_capacity( $( size_of_val($part) + )* 0 );
Alloc(c) ==
    /\ pc[c] = "alloc"
    /\ evals' = [evals EXCEPT ![c] = @ \o
                   [k \in 1..Len(input[c].parts) |->
                      [site |-> "size_of_val", part |-> k, val |-> input[c].parts[k]]]]
    /\ temp' = [temp EXCEPT ![TempOf(c)] = with_capacity(CapacityExpr(input[c].parts))]
    /\ i' = [i EXCEPT ![c] = 1]
    /\ pc' = [pc EXCEPT ![c] = "push"]
    /\ UNCHANGED <<args, input, result>>

\* the i-th repetition of temp.push($part);
PushPart(c) ==
    /\ pc[c] = "push"
    /\ i[c] <= Len(input[c].parts)
    /\ LET part == input[c].parts[i[c]]
       IN  /\ evals' = [evals EXCEPT ![c] =
                          Append(@, [site |-> "push", part |-> i[c], val |-> part])]
           /\ temp' = [temp EXCEPT ![TempOf(c)] = push(@, part)]
    /\ i' = [i EXCEPT ![c] = @ + 1]
    /\ UNCHANGED <<args, input, pc, result>>

\* the block's final expression `temp`
Return(c) ==
    /\ pc[c] = "push"
    /\ i[c] > Len(input[c].parts)
    /\ result' = [result EXCEPT ![c] = temp[TempOf(c)]]
    /\ pc' = [pc EXCEPT ![c] = "done"]
    /\ UNCHANGED <<args, input, i, temp, evals>>

InitCalls(calls, sites) ==
    /\ args \in [calls -> sites]
    /\ input = args
    /\ pc = [c \in calls |-> "expand"]
    /\ i = [c \in calls |-> 0]
    /\ temp = [c \in calls |-> NoBuf]
    /\ evals = [c \in calls |-> <<>>]
    /\ result = [c \in calls |-> NoBuf]

\* one call
Init == InitCalls({"A"}, CallSites(FragmentsUpTo(MaxFragLen), MaxParts))

\* two calls from independent call sites, their statements interleaved
InitConc == InitCalls({"A", "B"}, CallSites(ConcFragments, ConcMaxParts))

Next ==
    \E c \in Calls :
        \/ Rule2(c)
        \/ Rule1(c)
        \/ Alloc(c)
        \/ PushPart(c)
        \/ Return(c)

Spec == Init /\ [][Next]_vars

\* the expansion is straight-line code: a call that can take a step takes it
FairSpec == Init /\ [][Next]_vars /\ WF_vars(Next)

SpecConc == InitConc /\ [][Next]_vars

\* ------------------------------------------------- reference computations
RECURSIVE PushAll(_, _)
\* tests::it_works, `expected`: push the fragments one after another
PushAll(buf, parts) ==
    IF parts = <<>> THEN buf
    ELSE PushAll(push(buf, Head(parts)), Tail(parts))

Expected(parts) == PushAll(PathBufNew, parts)

Done(c) == pc[c] = "done"

IsPrefix(s, t) == Len(s) <= Len(t) /\ SubSeq(t, 1, Len(s)) = s

IsSuffix(s, t) == Len(s) <= Len(t) /\ SubSeq(t, Len(t) - Len(s) + 1, Len(t)) = s

\* the fragments handed to temp.push, in the order of the calls of push
Pushed(c) ==
    LET idx == {k \in 1..Len(evals[c]) : evals[c][k].site = "push"}
        nth[k \in 0..Len(evals[c])] ==
            IF k = 0 THEN <<>>
            ELSE IF k \in idx THEN Append(nth[k - 1], evals[c][k].val)
            ELSE nth[k - 1]
    IN  nth[Len(evals[c])]

\* the fragment indices in the order their expressions were evaluated
EvalOrder(c) == [k \in 1..Len(evals[c]) |-> evals[c][k].part]

\* ------------------------------------------------------------------ C1
\* C1: the buffer a call returns equals the buffer obtained from an empty
\* PathBuf by pushing f1, then f2, ..., then fn.
C1_SequentialAppend ==
    \A c \in Calls :
        Done(c) => result[c].inner = Expected(args[c].parts).inner

C1_Witness ==
    \E c \in Calls :
        /\ Done(c)
        /\ Len(args[c].parts) = 3
        /\ is_absolute(args[c].parts[1])
        /\ args[c].parts[2] = <<>>
        /\ args[c].parts[3] = <<"a">>
        /\ result[c].inner = args[c].parts[1] \o <<"/", "a">>

\* ------------------------------------------------------------------ C2
\* C2: when a fragment fi with i > 1 is absolute, the call returns what the
\* fragments fi..fn alone give: everything before fi is discarded.
C2_AbsoluteOverride ==
    \A c \in Calls :
        Done(c) =>
            \A k \in 2..Len(args[c].parts) :
                is_absolute(args[c].parts[k]) =>
                    result[c].inner =
                        Expected(SubSeq(args[c].parts, k, Len(args[c].parts))).inner

C2_Witness ==
    \E c \in Calls :
        /\ Done(c)
        /\ args[c].parts = << <<"/", "a">>, ParentDir, <<"/", "/">> >>
        /\ result[c].inner = <<"/", "/">>

\* ------------------------------------------------------------------ C3
\* C3: each fragment is read exactly once per call, left to right: the
\* evaluations of the fragment expressions are exactly f1, f2, ..., fn.
C3_EvaluatedOnceInOrder ==
    \A c \in Calls :
        Done(c) => EvalOrder(c) = [k \in 1..Len(args[c].parts) |-> k]

\* ------------------------------------------------------------------ C4
\* C4: a call with a comma after the last fragment returns the same buffer
\* as the call without it; the second rule forwards the same fragments in
\* the same order.
C4_TrailingCommaSame ==
    /\ [][\A c \in Calls : input'[c].parts = input[c].parts]_vars
    /\ [](\A c, d \in Calls :
            (Done(c) /\ Done(d) /\ args[c].parts = args[d].parts)
                => result[c] = result[d])

C4_Witness ==
    /\ Done("A") /\ Done("B")
    /\ args["A"].comma /\ ~args["B"].comma
    /\ args["A"].parts = args["B"].parts
    /\ Len(args["A"].parts) = 2
    /\ result["A"].inner # <<>>

\* ------------------------------------------------------------------ C5
\* C5: a call never fails: whatever the fragments, it performs its pushes,
\* terminates and returns one buffer, and every fragment reaches push
\* unaltered, none rejected.
C5_NeverFails ==
    /\ <>(\A c \in Calls : Done(c) /\ result[c] # NoBuf)
    /\ [](\A c \in Calls : Done(c) => Pushed(c) = args[c].parts)

C5_Witness ==
    \E c \in Calls :
        /\ Done(c)
        /\ result[c] # NoBuf
        /\ \E k \in 1..Len(args[c].parts) : args[c].parts[k] = ParentDir
        /\ \E k \in 1..Len(args[c].parts) : args[c].parts[k] = <<>>
        /\ \E k \in 1..Len(args[c].parts) : is_absolute(args[c].parts[k])

\* ------------------------------------------------------------------ C6
\* C6: the empty fragment list performs no push and returns a buffer equal
\* to PathBuf::new().
C6_EmptyList ==
    \A c \in Calls :
        (Done(c) /\ args[c].parts = <<>>) =>
            /\ result[c] = PathBufNew
            /\ Pushed(c) = <<>>

C6_Witness ==
    \E c \in Calls : Done(c) /\ args[c].parts = <<>> /\ result[c].inner = <<>>

\* ------------------------------------------------------------------ C7
\* C7: a call with the single fragment f returns a buffer equal to f: no
\* separator and nothing else is added.
C7_SingleFragment ==
    \A c \in Calls :
        (Done(c) /\ Len(args[c].parts) = 1) => result[c].inner = args[c].parts[1]

C7_Witness ==
    \E c \in Calls :
        /\ Done(c)
        /\ args[c].parts = << <<"a", "/">> >>
        /\ result[c].inner = <<"a", "/">>

\* ------------------------------------------------------------------ C8
\* C8: the capacity reservation does not affect the result: the returned
\* content is the content obtained from a buffer created with any other
\* capacity, or with PathBuf::new().
C8_CapacityIrrelevant ==
    \A c \in Calls :
        Done(c) =>
            /\ \A cap0 \in 0..MaxCap :
                   PushAll(with_capacity(cap0), args[c].parts).inner = result[c].inner
            /\ PushAll(PathBufNew, args[c].parts).inner = result[c].inner

\* the reservation was too small (separators) and the buffer had to grow
C8_Witness ==
    \E c \in Calls :
        /\ Done(c)
        /\ Len(args[c].parts) = 3
        /\ CapacityExpr(args[c].parts) < Len(result[c].inner)
        /\ result[c].cap > CapacityExpr(args[c].parts)

\* ------------------------------------------------------------------ C9
\* C9: calls share no state: with the statements of two calls interleaved in
\* any order, a step of one call leaves the other call's buffer and result
\* alone, and each call returns what it returns when run alone.
C9_NoSharedState ==
    /\ [][\A d \in Calls :
            (pc'[d] = pc[d] /\ i'[d] = i[d] /\ input'[d] = input[d]) =>
                /\ temp'[TempOf(d)] = temp[TempOf(d)]
                /\ result'[d] = result[d]
                /\ evals'[d] = evals[d]]_vars
    /\ [](\A c \in Calls : Done(c) => result[c].inner = Expected(args[c].parts).inner)

\* B ran to completion while A was in the middle of its pushes
C9_Witness ==
    /\ Done("B") /\ pc["A"] = "push" /\ i["A"] = 2
    /\ Len(args["A"].parts) = 2 /\ Len(args["B"].parts) = 2
    /\ args["A"].parts # args["B"].parts
    /\ result["B"].inner # temp[TempOf("A")].inner

\* ----------------------------------------------------------------- C10
IsPushStep(c) == pc[c] = "push" /\ i'[c] = i[c] + 1

NoAbsoluteAfterFirst(parts) == \A k \in 2..Len(parts) : ~is_absolute(parts[k])

====
